---------------------------- MODULE Spec2Model ----------------------------
(***************************************************************************)
(* A model of SegmentWidget (src/segmentation_widget.py): the mask editor  *)
(* behind the segmentation widget.  The state is the widget's attributes,  *)
(* the numpy arrays they are bound to, and the directory of saved masks.   *)
(* One action per callback the widget registers.                           *)
(*                                                                         *)
(* numpy arrays are objects: two attributes may be bound to the same       *)
(* array, and an in-place write through one is seen through the other.     *)
(* So the attributes _current_mask and _intermediate_mask hold references  *)
(* into a heap of arrays, copy() allocates, and the in-place writes of the *)
(* callbacks (lines 131, 132, 159) update the heap cell.                   *)
(***************************************************************************)
EXTENDS Integers, Sequences, FiniteSets

\* ------------------------------------------------------------------ bounds

\* Height and width of the images of the image directory.
H == 3
W == 3
\* The most clicks the model follows between two resets of the polygon.
MaxPoints == 3
\* Height and width of the first image of the larger image directory.
LargeSide == 7

\* ------------------------------------------------------- the directories

\* The identifiers: the sorted stems of the files of the image directory.
_ids == <<"a", "b">>

Ids == {_ids[i] : i \in 1..Len(_ids)}

\* The image directory: one (h, w, 3) array per identifier, kept as its
\* height and width (no callback reads a channel value).  The first image is
\* H by W, the second a single row.
ImageDir == [id \in Ids |-> IF id = _ids[1] THEN <<H, W>> ELSE <<1, W>>]

\* A second image directory, of larger images: the first LargeSide by
\* LargeSide, the second a single row.
LargeImageDir == [id \in Ids |-> IF id = _ids[1] THEN <<LargeSide, LargeSide>>
                                                 ELSE <<1, LargeSide>>]

\* The file of an identifier's mask in the mask directory.
mask_path(id) == <<"path_masks", id, ".npy">>

\* A directory, the heap and the record of saves are finite maps: the
\* files that exist, the cells that are bound, the identifiers saved.
Put(f, k, v) == [x \in DOMAIN f \cup {k} |-> IF x = k THEN v ELSE f[x]]
Restrict(f, S) == [x \in DOMAIN f \cap S |-> f[x]]
Empty == [x \in {} |-> x]

\* ----------------------------------------------------------------- arrays

\* A 2-D array is the sequence of its rows; numpy's index (r, c), counted
\* from 0, is row r + 1, column c + 1.
Shape(arr) == <<Len(arr), Len(arr[1])>>

At(arr, p) == arr[p[1] + 1][p[2] + 1]

\* The indices of an array of a shape.
Pixels(shape) == (0..(shape[1] - 1)) \X (0..(shape[2] - 1))

\* np.zeros called with (w, h) for (h, w).
np_zeros_Transposed(shape) == [r \in 1..shape[2] |-> [c \in 1..shape[1] |-> 0]]

\* np.zeros(shape)
np_zeros(shape) == [r \in 1..shape[1] |-> [c \in 1..shape[2] |-> 0]]

\* arr[arr == 2] = 0: only the polygon in progress is erased.
ZeroFill_OnlySentinel(arr) ==
    [r \in 1..Len(arr) |-> [c \in 1..Len(arr[r]) |-> IF arr[r][c] = 2 THEN 0 ELSE arr[r][c]]]

\* arr[:] = 0
ZeroFill(arr) == [r \in 1..Len(arr) |-> [c \in 1..Len(arr[r]) |-> 0]]

\* arr[sel == v] = w, sel an array of arr's shape
MaskedAssign(arr, sel, v, w) ==
    [r \in 1..Len(arr) |->
        [c \in 1..Len(arr[r]) |-> IF sel[r][c] = v THEN w ELSE arr[r][c]]]

\* arr[rr, cc] = v, the index arrays kept as a set of pixels
IndexAssign(arr, px, v) ==
    [r \in 1..Len(arr) |->
        [c \in 1..Len(arr[r]) |-> IF <<r - 1, c - 1>> \in px THEN v ELSE arr[r][c]]]

\* The cells of the heap of arrays: the widget holds two arrays at a time.
Refs == {"array1", "array2"}

\* A fresh array object: a cell no attribute in `live` is bound to.
Alloc(live) == CHOOSE r \in Refs : r \notin live

\* ------------------------------------------------------ skimage.draw.polygon

\* The relative position of the point (x, y) to the polygon (xp, yp), as
\* the rasterizer called at line 79 computes it: 0 outside, 1 inside,
\* 2 vertex, 3 edge.  Edge e = (i-1, i) is taken relative to the point; it
\* is counted right (left) when it straddles the x axis and crosses the
\* positive (negative) ray.  The quotient's sign is the sign of the product.
PrevVertex(i, n) == IF i = 1 THEN n ELSE i - 1

RightCross(xp, yp, x, y, i) ==
    LET j  == PrevVertex(i, Len(xp))
        x0 == xp[i] - x
        y0 == yp[i] - y
        x1 == xp[j] - x
        y1 == yp[j] - y
    IN  /\ (y0 > 0) # (y1 > 0)
        /\ (x0 * y1 - x1 * y0) * (y1 - y0) > 0

LeftCross(xp, yp, x, y, i) ==
    LET j  == PrevVertex(i, Len(xp))
        x0 == xp[i] - x
        y0 == yp[i] - y
        x1 == xp[j] - x
        y1 == yp[j] - y
    IN  /\ (y0 < 0) # (y1 < 0)
        /\ (x0 * y1 - x1 * y0) * (y1 - y0) < 0

point_in_polygon(xp, yp, x, y) ==
    LET n       == Len(xp)
        r_cross == Cardinality({i \in 1..n : RightCross(xp, yp, x, y, i)})
        l_cross == Cardinality({i \in 1..n : LeftCross(xp, yp, x, y, i)})
    IN  IF \E i \in 1..n : xp[i] = x /\ yp[i] = y THEN 2
        ELSE IF (r_cross % 2) # (l_cross % 2) THEN 3
        ELSE IF r_cross % 2 = 1 THEN 1
        ELSE 0

SeqMin(s) == CHOOSE v \in {s[i] : i \in 1..Len(s)} : \A i \in 1..Len(s) : v <= s[i]
SeqMax(s) == CHOOSE v \in {s[i] : i \in 1..Len(s)} : \A i \in 1..Len(s) : v >= s[i]
Min(a, b) == IF a < b THEN a ELSE b
Max(a, b) == IF a > b THEN a ELSE b

\* The polygon without its vertices and edges: the pixels strictly inside.
polygon_InteriorOnly(r, c, shape) ==
    {p \in (0..(shape[1] - 1)) \X (0..(shape[2] - 1)) :
        point_in_polygon(c, r, p[2], p[1]) = 1}

\* polygon(r, c, shape): the pixels (rr, cc) of the polygon's bounding box,
\* clipped to the shape, that are not outside the polygon.
polygon(r, c, shape) ==
    LET minr == Max(0, SeqMin(r))
        maxr == Min(shape[1] - 1, SeqMax(r))
        minc == Max(0, SeqMin(c))
        maxc == Min(shape[2] - 1, SeqMax(c))
    IN  {p \in (minr..maxr) \X (minc..maxc) :
            point_in_polygon(c, r, p[2], p[1]) # 0}

\* ------------------------------------------------------------------ state

VARIABLES
    _current_id,          \* the identifier selected in the dropdown
    _current_img,         \* the image loaded for it
    _polygon_coordinates, \* the clicks since the last reset, in order
    _current_mask,        \* reference of the committed mask
    _intermediate_mask,   \* reference of the working mask
    heap,                 \* the arrays the two references are bound to
    image_fig_z,          \* the overlay drawn over the image (_image_fig.data[1].z)
    mask_fig_z,           \* the mask figure (_mask_fig.data[0].z)
    masks_dir,            \* the mask directory: the array saved in each file
    last,                 \* history: the callback that ran last
    prev,                 \* history: the callback that ran before it
    pending_clear,        \* history: the working mask was zeroed in place by
                          \* "Delete All Mask" and not rebound since
    saved,                \* history: the array the last save of each identifier wrote
    _path_imgs,           \* the image directory the widget was constructed on
    clear_adds            \* history: <<n>> after "Delete All Mask" and n clicks,
                          \* <<n, "saved">> once a save followed them, and
                          \* NoClear after any other command

vars == <<_current_id, _current_img, _polygon_coordinates, _current_mask,
          _intermediate_mask, heap, image_fig_z, mask_fig_z, masks_dir,
          last, prev, pending_clear, saved, _path_imgs, clear_adds>>

NoClear == <<>>

\* The file of an identifier's image.
img_path(id) == <<_path_imgs, id, ".npy">>

\* The image files on disk: those of the two image directories.
ImageFiles ==
    [f \in {<<d, id, ".npy">> : d \in {"path_imgs", "path_imgs_large"}, id \in Ids} |->
        IF f[1] = "path_imgs" THEN ImageDir[f[2]] ELSE LargeImageDir[f[2]]]

\* np.load of an image file: the array, and line 64's h, w of it.
LoadImage(id) == [id |-> id, shape |-> ImageFiles[img_path(id)]]

\* The committed mask and the working mask, as arrays.
Committed == heap[_current_mask]
Working == heap[_intermediate_mask]

\* The heap with only the cells the two attributes are bound to.
Collect(h, cur, int) == Restrict(h, {cur, int})


\* ------------------------------------------------------------- the store

\* np.save(mask_path, arr): the file holds the array's value at the call.
np_save(dir, file, arr) == Put(dir, file, arr)

\* The test made on a path that never exists.
path_exists_Never(dir, file) == FALSE

\* os.path.exists(mask_path)
path_exists(dir, file) == file \in DOMAIN dir

\* np.load(mask_path)
np_load(dir, file) == dir[file]

\* _load_images: the image, then the saved mask or an empty one bound to
\* _current_mask (a new array), then its copy bound to _intermediate_mask.
\* `held` are the cells still bound once _current_mask is rebound.
_load_images(id, dir, h, held) ==
    LET img  == LoadImage(id)
        mask == IF path_exists(dir, mask_path(id))
                THEN np_load(dir, mask_path(id))
                ELSE np_zeros(img.shape)
        rc   == Alloc(held)
        h1   == Put(h, rc, mask)
        ri   == Alloc({rc})
        h2   == Put(h1, ri, h1[rc])
    IN  [img |-> img, cur |-> rc, int |-> ri, heap |-> Collect(h2, rc, ri)]


\* The mask generated with the clicks' rows and columns exchanged.
_gen_mask_from_polygon_Transposed(pts, cur, h) ==
    LET shape == Shape(h[cur])
        px    == polygon([i \in 1..Len(pts) |-> pts[i][2]],
                         [i \in 1..Len(pts) |-> pts[i][1]], shape)
        ri    == Alloc({cur})
    IN  [int |-> ri, heap |-> Collect(Put(h, ri, IndexAssign(h[cur], px, 2)), cur, ri)]

\* The mask generated on the empty new_mask of line 78 instead of a copy of
\* the committed mask.
_gen_mask_from_polygon_OnNewMask(pts, cur, h) ==
    LET shape == Shape(h[cur])
        px    == polygon([i \in 1..Len(pts) |-> pts[i][1]],
                         [i \in 1..Len(pts) |-> pts[i][2]], shape)
        ri    == Alloc({cur})
    IN  [int |-> ri, heap |-> Collect(Put(h, ri, IndexAssign(np_zeros(shape), px, 2)), cur, ri)]

\* _gen_mask_from_polygon: the working mask becomes a copy of the committed
\* mask with the polygon's pixels set to 2.  The heap after it and the cell
\* _intermediate_mask is bound to.
_gen_mask_from_polygon(pts, cur, h) ==
    LET shape == Shape(h[cur])
        px    == polygon([i \in 1..Len(pts) |-> pts[i][1]],
                         [i \in 1..Len(pts) |-> pts[i][2]], shape)
        ri    == Alloc({cur})
        h1    == Put(h, ri, h[cur])
        h2    == Put(h1, ri, IndexAssign(h1[ri], px, 2))
    IN  [int |-> ri, heap |-> Collect(h2, cur, ri)]

\* The commit with line 132 written as current[intermediate == 1] = 0.
CommitIntermediate_Swapped(h, cur, int) ==
    LET h1 == Put(h, cur, MaskedAssign(h[cur], h[int], 2, 1))
    IN  Put(h1, cur, MaskedAssign(h1[cur], h1[int], 1, 0))

\* The commit as an overwrite: the committed mask takes the working mask's
\* values as they are.
CommitIntermediate_Overwrite(h, cur, int) == Put(h, cur, h[int])

\* The commit without line 132: the pixels the working mask holds at 0 keep
\* their committed value.
CommitIntermediate_OnlySentinel(h, cur, int) ==
    Put(h, cur, MaskedAssign(h[cur], h[int], 2, 1))

\* Lines 131 and 132: the committed mask takes 1 where the working mask is
\* 2, then 0 where the working mask is 0; both writes are in place.
CommitIntermediate(h, cur, int) ==
    LET h1 == Put(h, cur, MaskedAssign(h[cur], h[int], 2, 1))
    IN  Put(h1, cur, MaskedAssign(h1[cur], h1[int], 0, 0))

\* The assignment without copy(): both attributes bound to one array.
CopyToIntermediate_Alias(h, cur) == [int |-> cur, heap |-> Collect(h, cur, cur)]

\* x.copy() bound to _intermediate_mask: the heap after it and the new cell.
CopyToIntermediate(h, cur) ==
    LET ri == Alloc({cur})
    IN  [int |-> ri, heap |-> Collect(Put(h, ri, h[cur]), cur, ri)]

\* The pixels a click on the overlay can report (points.point_inds[0]): the
\* model follows clicks on three corners of the overlay.
ClickPoints(shape) == {<<0, 0>>, <<0, shape[2] - 1>>, <<shape[1] - 1, 0>>}

\* A mask file found in the mask directory at construction: one pixel of
\* the item's last row is labelled, a pixel no polygon of ClickPoints covers.
ExistingMask(id) ==
    IndexAssign(np_zeros(ImageDir[id]), {<<ImageDir[id][1] - 1, 1>>}, 1)

\* ------------------------------------------------------------ construction

\* __init__ and _initialize_figures: the first identifier is loaded and
\* both figures show its mask.
Init ==
    /\ _path_imgs = "path_imgs"
    /\ clear_adds = NoClear
    /\ \E found \in SUBSET Ids :
           masks_dir = [f \in {mask_path(id) : id \in found} |-> ExistingMask(f[2])]
    /\ _current_id = _ids[1]
    /\ _polygon_coordinates = <<>>
    /\ LET ld == _load_images(_ids[1], masks_dir, Empty, {})
       IN  /\ _current_img = ld.img
           /\ _current_mask = ld.cur
           /\ _intermediate_mask = ld.int
           /\ heap = ld.heap
           /\ image_fig_z = ld.heap[ld.cur]
           /\ mask_fig_z = ld.heap[ld.cur]
    /\ last = "__init__"
    /\ prev = "__init__"
    /\ pending_clear = FALSE
    /\ saved = Empty

\* --------------------------------------------------------------- callbacks

\* A click on the overlay.
_on_click_figure(pt) ==
    /\ LET pts == Append(_polygon_coordinates, pt)
           gen == _gen_mask_from_polygon(pts, _current_mask, heap)
       IN  /\ _polygon_coordinates' = pts
           /\ IF Len(pts) > 2
              THEN /\ _intermediate_mask' = gen.int
                   /\ heap' = gen.heap
                   /\ image_fig_z' = gen.heap[gen.int]
                   /\ pending_clear' = FALSE
              ELSE UNCHANGED <<_intermediate_mask, heap, image_fig_z, pending_clear>>
    /\ last' = "add_point"
    /\ clear_adds' = IF Len(clear_adds) = 1 THEN <<clear_adds[1] + 1>> ELSE NoClear
    /\ UNCHANGED _path_imgs
    /\ prev' = last
    /\ UNCHANGED <<_current_id, _current_img, _current_mask, mask_fig_z, masks_dir, saved>>

\* "Save Configuration" with np.save moved before the writes of lines
\* 131-132: the file gets the committed mask as it was.
_callback_save_button_SavesFirst ==
    LET h1  == CommitIntermediate(heap, _current_mask, _intermediate_mask)
        cp  == CopyToIntermediate(h1, _current_mask)
    IN  /\ masks_dir' = np_save(masks_dir, mask_path(_current_id), heap[_current_mask])
        /\ _intermediate_mask' = cp.int
        /\ heap' = cp.heap
        /\ image_fig_z' = cp.heap[_current_mask]
        /\ mask_fig_z' = cp.heap[_current_mask]
        /\ _polygon_coordinates' = <<>>
        /\ saved' = Put(saved, _current_id, h1[_current_mask])
        /\ pending_clear' = FALSE
        /\ last' = "save"
        /\ clear_adds' = IF Len(clear_adds) = 1 THEN <<clear_adds[1], "saved">> ELSE NoClear
        /\ UNCHANGED _path_imgs
        /\ prev' = last
        /\ UNCHANGED <<_current_id, _current_img, _current_mask>>

\* "Save Configuration"
_callback_save_button ==
    LET h1  == CommitIntermediate(heap, _current_mask, _intermediate_mask)
        cp  == CopyToIntermediate(h1, _current_mask)
    IN  /\ masks_dir' = np_save(masks_dir, mask_path(_current_id), h1[_current_mask])
        /\ _intermediate_mask' = cp.int
        /\ heap' = cp.heap
        /\ image_fig_z' = cp.heap[_current_mask]
        /\ mask_fig_z' = cp.heap[_current_mask]
        /\ _polygon_coordinates' = <<>>
        /\ saved' = Put(saved, _current_id, h1[_current_mask])
        /\ pending_clear' = FALSE
        /\ last' = "save"
        /\ clear_adds' = IF Len(clear_adds) = 1 THEN <<clear_adds[1], "saved">> ELSE NoClear
        /\ UNCHANGED _path_imgs
        /\ prev' = last
        /\ UNCHANGED <<_current_id, _current_img, _current_mask>>

\* "Delete Current Mask" that only empties the polygon: the working mask
\* keeps the polygon's pixels.
_callback_delete_current_config_button_KeepsWorking ==
    /\ _polygon_coordinates' = <<>>
    /\ pending_clear' = FALSE
    /\ last' = "discard_current"
    /\ clear_adds' = NoClear
    /\ prev' = last
    /\ UNCHANGED <<_current_id, _current_img, _current_mask, _intermediate_mask, heap,
                   image_fig_z, mask_fig_z, masks_dir, saved, _path_imgs>>

\* "Delete Current Mask" that also removes the item's saved mask.
_callback_delete_current_config_button_DeletesFile ==
    LET cp == CopyToIntermediate(heap, _current_mask)
    IN  /\ _intermediate_mask' = cp.int
        /\ heap' = cp.heap
        /\ image_fig_z' = cp.heap[cp.int]
        /\ _polygon_coordinates' = <<>>
        /\ masks_dir' = Restrict(masks_dir, DOMAIN masks_dir \ {mask_path(_current_id)})
        /\ pending_clear' = FALSE
        /\ last' = "discard_current"
        /\ clear_adds' = NoClear
        /\ UNCHANGED _path_imgs
        /\ prev' = last
        /\ UNCHANGED <<_current_id, _current_img, _current_mask, mask_fig_z, saved>>

\* "Delete Current Mask" wired to the reset of "Delete All Mask".
_callback_delete_current_config_button_Zeroes ==
    LET h1 == Put(heap, _intermediate_mask, ZeroFill(heap[_intermediate_mask]))
    IN  /\ heap' = h1
        /\ image_fig_z' = h1[_intermediate_mask]
        /\ _polygon_coordinates' = <<>>
        /\ pending_clear' = TRUE
        /\ last' = "discard_current"
        /\ clear_adds' = NoClear
        /\ UNCHANGED _path_imgs
        /\ prev' = last
        /\ UNCHANGED <<_current_id, _current_img, _current_mask, _intermediate_mask,
                       mask_fig_z, masks_dir, saved>>

\* "Delete Current Mask"
_callback_delete_current_config_button ==
    LET cp == CopyToIntermediate(heap, _current_mask)
    IN  /\ _intermediate_mask' = cp.int
        /\ heap' = cp.heap
        /\ image_fig_z' = cp.heap[cp.int]
        /\ _polygon_coordinates' = <<>>
        /\ pending_clear' = FALSE
        /\ last' = "discard_current"
        /\ clear_adds' = NoClear
        /\ UNCHANGED _path_imgs
        /\ prev' = last
        /\ UNCHANGED <<_current_id, _current_img, _current_mask, mask_fig_z, masks_dir, saved>>

\* "Delete All Mask" that zeroes the committed mask as well.
_callback_delete_all_button_ZeroesBoth ==
    LET h0 == Put(heap, _current_mask, ZeroFill(heap[_current_mask]))
        h1 == Put(h0, _intermediate_mask, ZeroFill(h0[_intermediate_mask]))
    IN  /\ heap' = h1
        /\ image_fig_z' = h1[_intermediate_mask]
        /\ _polygon_coordinates' = <<>>
        /\ pending_clear' = TRUE
        /\ last' = "clear_all"
        /\ clear_adds' = <<0>>
        /\ UNCHANGED _path_imgs
        /\ prev' = last
        /\ UNCHANGED <<_current_id, _current_img, _current_mask, _intermediate_mask,
                       mask_fig_z, masks_dir, saved>>

\* "Delete All Mask"
_callback_delete_all_button ==
    LET h1 == Put(heap, _intermediate_mask, ZeroFill(heap[_intermediate_mask]))
    IN  /\ heap' = h1
        /\ image_fig_z' = h1[_intermediate_mask]
        /\ _polygon_coordinates' = <<>>
        /\ pending_clear' = TRUE
        /\ last' = "clear_all"
        /\ clear_adds' = <<0>>
        /\ UNCHANGED _path_imgs
        /\ prev' = last
        /\ UNCHANGED <<_current_id, _current_img, _current_mask, _intermediate_mask,
                       mask_fig_z, masks_dir, saved>>

\* The item switch without line 189: the clicks made on the item left stay.
_callback_dropdown_KeepsPolygon(new) ==
    /\ new # _current_id
    /\ LET ld == _load_images(new, masks_dir, heap, {_intermediate_mask})
       IN  /\ _current_id' = new
           /\ _current_img' = ld.img
           /\ _current_mask' = ld.cur
           /\ _intermediate_mask' = ld.int
           /\ heap' = ld.heap
           /\ image_fig_z' = ld.heap[ld.cur]
           /\ mask_fig_z' = ld.heap[ld.cur]
    /\ pending_clear' = FALSE
    /\ last' = "switch_item"
    /\ clear_adds' = NoClear
    /\ UNCHANGED _path_imgs
    /\ prev' = last
    /\ UNCHANGED <<_polygon_coordinates, masks_dir, saved>>

\* The dropdown's value changed to `new` (the observer is registered on
\* changes of "value", line 194).
_callback_dropdown(new) ==
    /\ new # _current_id
    /\ LET ld == _load_images(new, masks_dir, heap, {_intermediate_mask})
       IN  /\ _current_id' = new
           /\ _current_img' = ld.img
           /\ _current_mask' = ld.cur
           /\ _intermediate_mask' = ld.int
           /\ heap' = ld.heap
           /\ image_fig_z' = ld.heap[ld.cur]
           /\ mask_fig_z' = ld.heap[ld.cur]
    /\ _polygon_coordinates' = <<>>
    /\ pending_clear' = FALSE
    /\ last' = "switch_item"
    /\ clear_adds' = NoClear
    /\ UNCHANGED _path_imgs
    /\ prev' = last
    /\ UNCHANGED <<masks_dir, saved>>

Next ==
    \/ \E pt \in ClickPoints(Shape(image_fig_z)) :
          /\ Len(_polygon_coordinates) < MaxPoints
          /\ _on_click_figure(pt)
    \/ _callback_save_button
    \/ _callback_delete_current_config_button
    \/ _callback_delete_all_button
    \/ \E new \in Ids : _callback_dropdown(new)

Spec == Init /\ [][Next]_vars


\* ------------------------------------------------------------ vocabulary

\* The pixels of an array that hold v.
PixelsAt(arr, v) == {p \in Pixels(Shape(arr)) : At(arr, p) = v}

AllZero(arr) == \A p \in Pixels(Shape(arr)) : At(arr, p) = 0

\* The values an array holds.
Values(arr) == {At(arr, p) : p \in Pixels(Shape(arr))}

\* The operations that end a polygon.
Resets == {"save", "discard_current", "clear_all", "switch_item"}

\* What the widget shows and holds, with the arrays by value.
Editor == <<_current_id, _current_img, _polygon_coordinates, Committed, Working,
            image_fig_z, mask_fig_z>>

\* ------------------------------------------------------------------ C1

\* C1 as stated: after save() the committed mask is the committed mask of
\* before with the pixels the working mask marked 2 set to 1 (and nothing
\* else changed), the file of the current identifier and the working mask
\* equal it, and the polygon is empty.
C1_AsStated ==
    [][last' = "save" =>
        /\ Shape(Committed') = Shape(Committed)
        /\ \A p \in Pixels(Shape(Committed)) :
              At(Committed', p) = IF At(Working, p) = 2 THEN 1 ELSE At(Committed, p)
        /\ mask_path(_current_id) \in DOMAIN masks_dir'
        /\ masks_dir'[mask_path(_current_id)] = Committed'
        /\ Working' = Committed'
        /\ _polygon_coordinates' = <<>>]_vars

\* C1 amended: after save() the committed mask is the committed mask of
\* before with the pixels the working mask marked 2 set to 1 and the pixels
\* where the working mask was 0 set to 0; the file of the current
\* identifier and the working mask equal it, and the polygon is empty.
C1_SaveCommits ==
    [][last' = "save" =>
        /\ Shape(Committed') = Shape(Committed)
        /\ \A p \in Pixels(Shape(Committed)) :
              At(Committed', p) = IF At(Working, p) = 2 THEN 1
                                  ELSE IF At(Working, p) = 0 THEN 0
                                  ELSE At(Committed, p)
        /\ mask_path(_current_id) \in DOMAIN masks_dir'
        /\ masks_dir'[mask_path(_current_id)] = Committed'
        /\ Working' = Committed'
        /\ _polygon_coordinates' = <<>>]_vars

\* A save that committed a polygon drawn since the last reset.
C1_Witness ==
    /\ last = "save"
    /\ prev = "add_point"
    /\ At(Committed, <<0, 0>>) = 1
    /\ masks_dir[mask_path(_current_id)] = Committed
    /\ _polygon_coordinates = <<>>


\* ------------------------------------------------------------------ C2

\* C2: a save whose working mask was not zeroed by clear_all() keeps every
\* 1 of the committed mask, in memory and in the file it writes; and no
\* step other than a save after a pending clear_all() removes a file of the
\* mask directory or turns a 1 of a file to 0.
C2_SaveIsAdditive ==
    [][/\ (last' = "save" /\ ~pending_clear) =>
              /\ PixelsAt(Committed, 1) \subseteq PixelsAt(Committed', 1)
              /\ PixelsAt(Committed, 1)
                    \subseteq PixelsAt(masks_dir'[mask_path(_current_id)], 1)
       /\ ~(last' = "save" /\ pending_clear) =>
              \A f \in DOMAIN masks_dir :
                  /\ f \in DOMAIN masks_dir'
                  /\ PixelsAt(masks_dir[f], 1) \subseteq PixelsAt(masks_dir'[f], 1)]_vars

\* A save added a polygon to a mask that held a label before: the label of
\* the file found at construction is still there, next to the polygon's.
C2_Witness ==
    /\ last = "save"
    /\ ~pending_clear
    /\ _current_id = _ids[1]
    /\ At(Committed, <<H - 1, 1>>) = 1
    /\ At(Committed, <<0, 0>>) = 1
    /\ At(masks_dir[mask_path(_current_id)], <<H - 1, 1>>) = 1

\* ------------------------------------------------------------------ C3

\* C3: every pixel of the committed mask and of every file of the mask
\* directory is 0 or 1, and every pixel of the working mask is 0, 1 or 2.
C3_MaskValues ==
    /\ Values(Committed) \subseteq {0, 1}
    /\ \A f \in DOMAIN masks_dir : Values(masks_dir[f]) \subseteq {0, 1}
    /\ Values(Working) \subseteq {0, 1, 2}

\* A polygon was committed while another is being drawn: the working mask
\* holds 2 next to a committed 1, and the file holds the 1.
C3_Witness ==
    /\ PixelsAt(Working, 2) # {}
    /\ PixelsAt(Working, 1) # {}
    /\ mask_path(_current_id) \in DOMAIN masks_dir
    /\ At(masks_dir[mask_path(_current_id)], <<0, 0>>) = 1

\* ------------------------------------------------------------------ C4

\* The rasterizer's fill of a list of clicks on an array of a shape.
Fill(pts, shape) ==
    polygon([i \in 1..Len(pts) |-> pts[i][1]], [i \in 1..Len(pts) |-> pts[i][2]], shape)

\* C4: add_point appends the point at the end of the polygon; from the
\* third point on the working mask is the committed mask with exactly the
\* fill of the polygon at 2, before that it is unchanged; the committed
\* mask and the mask directory are unchanged.
C4_AddPoint ==
    [][last' = "add_point" =>
        /\ Len(_polygon_coordinates') = Len(_polygon_coordinates) + 1
        /\ SubSeq(_polygon_coordinates', 1, Len(_polygon_coordinates)) = _polygon_coordinates
        /\ _polygon_coordinates'[Len(_polygon_coordinates')]
              \in ClickPoints(Shape(image_fig_z))
        /\ IF Len(_polygon_coordinates') >= 3
           THEN /\ Shape(Working') = Shape(Committed)
                /\ \A p \in Pixels(Shape(Committed)) :
                      At(Working', p) =
                         IF p \in Fill(_polygon_coordinates', Shape(Committed))
                         THEN 2 ELSE At(Committed, p)
           ELSE Working' = Working
        /\ Committed' = Committed
        /\ masks_dir' = masks_dir]_vars

\* The third click on a mask that holds labels: the working mask shows the
\* fill over them.
C4_Witness ==
    /\ last = "add_point"
    /\ Len(_polygon_coordinates) = 3
    /\ PixelsAt(Working, 2) = Fill(_polygon_coordinates, Shape(Committed))
    /\ Cardinality(PixelsAt(Working, 2)) > 3
    /\ PixelsAt(Working, 1) # {}

\* ------------------------------------------------------------------ C5

\* C5: save, discard_current, clear_all and switch_item each leave the
\* polygon empty, and the polygon is non-empty only after an add_point,
\* which extended by one point the polygon of the state before.
C5_PolygonReset ==
    [][/\ last' \in Resets => _polygon_coordinates' = <<>>
       /\ _polygon_coordinates' # <<>> =>
              /\ last' = "add_point"
              /\ Len(_polygon_coordinates') = Len(_polygon_coordinates) + 1
              /\ SubSeq(_polygon_coordinates', 1, Len(_polygon_coordinates))
                    = _polygon_coordinates]_vars

\* An item switch that found a polygon in progress and left none.
C5_Witness ==
    /\ last = "switch_item"
    /\ prev = "add_point"
    /\ _polygon_coordinates = <<>>
    /\ _current_id = _ids[2]


\* ------------------------------------------------------------------ C6

\* C6: only save() changes the mask directory, and only the file of the
\* current identifier: every file is what the last save of its identifier
\* wrote, or what construction found when it was never saved.  After
\* switch_item to b the committed and the working mask are b's loaded mask:
\* b's file, or zeros of the shape of b's image when b has none.
C6_OnlySaveWrites ==
    /\ [](\A id \in Ids :
            IF id \in DOMAIN saved
            THEN /\ mask_path(id) \in DOMAIN masks_dir
                 /\ masks_dir[mask_path(id)] = saved[id]
            ELSE \/ mask_path(id) \notin DOMAIN masks_dir
                 \/ masks_dir[mask_path(id)] = ExistingMask(id))
    /\ [][/\ last' # "save" => masks_dir' = masks_dir
          /\ last' = "save" =>
                /\ DOMAIN masks_dir' = DOMAIN masks_dir \cup {mask_path(_current_id)}
                /\ \A f \in DOMAIN masks_dir \ {mask_path(_current_id)} :
                      masks_dir'[f] = masks_dir[f]
          /\ last' = "switch_item" =>
                /\ IF mask_path(_current_id') \in DOMAIN masks_dir
                   THEN Committed' = masks_dir[mask_path(_current_id')]
                   ELSE /\ Shape(Committed') = ImageDir[_current_id']
                        /\ AllZero(Committed')
                /\ Working' = Committed']_vars

\* A switch to the second item, never saved, made over unsaved clicks on
\* the first: the first item's file is what its last save wrote and the
\* editor shows the second item's empty mask.
C6_Witness ==
    /\ last = "switch_item"
    /\ prev = "add_point"
    /\ _current_id = _ids[2]
    /\ _ids[1] \in DOMAIN saved
    /\ masks_dir[mask_path(_ids[1])] = saved[_ids[1]]
    /\ At(saved[_ids[1]], <<0, 0>>) = 1
    /\ mask_path(_ids[2]) \notin DOMAIN masks_dir
    /\ AllZero(Committed)
    /\ Working = Committed

\* ------------------------------------------------------------------ C7

\* C7: the working mask and the committed mask are never the same array,
\* and clear_all() sets every pixel of the working mask to 0 and leaves the
\* committed mask and the mask directory unchanged.
C7_ClearAll ==
    /\ [](_current_mask # _intermediate_mask)
    /\ [][last' = "clear_all" =>
            /\ Shape(Working') = Shape(Working)
            /\ AllZero(Working')
            /\ Committed' = Committed
            /\ masks_dir' = masks_dir]_vars

\* clear_all() right after a save that left labels: the working mask is
\* empty and the committed mask still holds them.
C7_Witness ==
    /\ last = "clear_all"
    /\ prev = "save"
    /\ AllZero(Working)
    /\ PixelsAt(Committed, 1) # {}
    /\ masks_dir[mask_path(_current_id)] = Committed

\* ------------------------------------------------------------------ C8

\* C8: save() right after clear_all() leaves the committed mask and the
\* file of the current identifier all zero.
C8_ClearThenSave ==
    [][(last = "clear_all" /\ last' = "save") =>
          /\ AllZero(Committed')
          /\ mask_path(_current_id) \in DOMAIN masks_dir'
          /\ AllZero(masks_dir'[mask_path(_current_id)])]_vars

\* clear_all() then save(): the file of the current identifier exists and
\* is empty, as is the committed mask.
C8_Witness ==
    /\ last = "save"
    /\ prev = "clear_all"
    /\ AllZero(Committed)
    /\ mask_path(_current_id) \in DOMAIN masks_dir
    /\ AllZero(masks_dir[mask_path(_current_id)])

\* ------------------------------------------------------------------ C9

\* C9: discard_current() makes the working mask equal to the committed
\* mask and leaves the committed mask and the mask directory unchanged; a
\* second discard_current() right after it changes nothing of the editor.
C9_Discard ==
    [][last' = "discard_current" =>
          /\ Working' = Committed
          /\ _current_mask' # _intermediate_mask'
          /\ Committed' = Committed
          /\ masks_dir' = masks_dir
          /\ (last = "discard_current" => Editor' = Editor)]_vars

\* Two discards in a row on a mask that holds labels.
C9_Witness ==
    /\ last = "discard_current"
    /\ prev = "discard_current"
    /\ PixelsAt(Committed, 1) # {}
    /\ Working = Committed

\* ------------------------------------------------------------------ C10

\* C10: right after switch_item to an identifier that was saved, the
\* committed and the working mask equal the mask its last save wrote.
C10_RoundTrip ==
    (last = "switch_item" /\ _current_id \in DOMAIN saved) =>
        /\ Committed = saved[_current_id]
        /\ Working = saved[_current_id]

\* Back on the first item after a visit to the second: the polygon saved
\* before leaving is loaded again.
C10_Witness ==
    /\ last = "switch_item"
    /\ _current_id = _ids[1]
    /\ _current_id \in DOMAIN saved
    /\ At(saved[_current_id], <<0, 0>>) = 1
    /\ At(Committed, <<0, 0>>) = 1

\* ---------------------------------------------------------- a failing store

\* The dropdown's value changed to `new` and np.load of the image raised at
\* line 63: the observer ends there, after line 171 bound _current_id.
_callback_dropdown_ImageLoadRaises(new) ==
    /\ new # _current_id
    /\ _current_id' = new
    /\ last' = "switch_item raised"
    /\ prev' = last
    /\ UNCHANGED <<_current_img, _polygon_coordinates, _current_mask,
                   _intermediate_mask, heap, image_fig_z, mask_fig_z, masks_dir,
                   pending_clear, saved, _path_imgs, clear_adds>>

\* The dropdown's value changed to `new` and np.load of its mask file raised
\* at line 69: lines 171 and 63 have bound _current_id and _current_img.
_callback_dropdown_MaskLoadRaises(new) ==
    /\ new # _current_id
    /\ path_exists(masks_dir, mask_path(new))
    /\ _current_id' = new
    /\ _current_img' = LoadImage(new)
    /\ last' = "switch_item raised"
    /\ prev' = last
    /\ UNCHANGED <<_polygon_coordinates, _current_mask, _intermediate_mask, heap,
                   image_fig_z, mask_fig_z, masks_dir, pending_clear, saved,
                   _path_imgs, clear_adds>>

\* "Save Configuration" and np.save raised at line 134 without writing: the
\* callback ends there, after lines 131-132 wrote into the committed mask.
_callback_save_button_SaveRaises ==
    /\ heap' = CommitIntermediate(heap, _current_mask, _intermediate_mask)
    /\ last' = "save raised"
    /\ prev' = last
    /\ UNCHANGED <<_current_id, _current_img, _polygon_coordinates, _current_mask,
                   _intermediate_mask, image_fig_z, mask_fig_z, masks_dir,
                   pending_clear, saved, _path_imgs, clear_adds>>

Raised == {"switch_item raised", "save raised"}

\* No callback has raised yet.
Running == last \notin Raised

NextFaulty ==
    \/ \E pt \in ClickPoints(Shape(image_fig_z)) :
          /\ Running
          /\ Len(_polygon_coordinates) < MaxPoints
          /\ _on_click_figure(pt)
    \/ Running /\ _callback_save_button
    \/ Running /\ _callback_delete_current_config_button
    \/ Running /\ _callback_delete_all_button
    \/ \E new \in Ids : Running /\ _callback_dropdown(new)
    \/ \E new \in Ids : Running /\ _callback_dropdown_ImageLoadRaises(new)
    \/ \E new \in Ids : Running /\ _callback_dropdown_MaskLoadRaises(new)
    \/ Running /\ _callback_save_button_SaveRaises

\* The widget on a store whose reads and writes can fail, followed up to the
\* first exception a callback raises.
SpecFaulty == Init /\ [][NextFaulty]_vars

\* ----------------------------------------------------------------- C11

\* C11: an operation that fails (a load raising during a switch, a write
\* raising during a save) leaves the current identifier, the image, the
\* committed mask, the working mask, the polygon and the mask directory
\* exactly as they were before it.
C11_FailureIsAtomic ==
    [][last' \in Raised =>
          /\ _current_id' = _current_id
          /\ _current_img' = _current_img
          /\ Committed' = Committed
          /\ Working' = Working
          /\ _polygon_coordinates' = _polygon_coordinates
          /\ masks_dir' = masks_dir]_vars

\* ----------------------------------------------------------------- C12

\* C12: loading an identifier that has no mask file, at construction or by a
\* switch, gives a committed and a working mask that are all zero and have
\* the image's height and width; the load creates no mask file: the file of
\* an identifier first appears with a save made while it is current.
C12_LoadWithoutMask ==
    /\ [](/\ last \in {"__init__", "switch_item"}
          /\ ~path_exists(masks_dir, mask_path(_current_id))
          => /\ AllZero(Committed) /\ Shape(Committed) = _current_img.shape
             /\ AllZero(Working) /\ Shape(Working) = _current_img.shape)
    /\ [][last' = "switch_item" => masks_dir' = masks_dir]_vars
    /\ [][\A id \in Ids :
            /\ ~path_exists(masks_dir, mask_path(id))
            /\ path_exists(masks_dir', mask_path(id))
            => last' = "save" /\ _current_id = id]_vars

\* The second item was switched to with no mask file of it, and the first
\* save of it has created the file.
C12_Witness ==
    /\ last = "save" /\ prev = "switch_item"
    /\ _current_id = _ids[2]
    /\ path_exists(masks_dir, mask_path(_ids[2]))
    /\ AllZero(Committed)
    /\ Shape(Committed) = ImageDir[_ids[2]]

\* ------------------------------------------- masks of other dimensions

\* A mask file found under path_masks whose array does not have the
\* dimensions of the identifier's image: the mask of another item's image.
ForeignMask(id) == ExistingMask(CHOOSE other \in Ids : ImageDir[other] # ImageDir[id])

\* __init__ on a mask directory that holds such files.
InitForeignMasks ==
    /\ _path_imgs = "path_imgs"
    /\ clear_adds = NoClear
    /\ \E found \in SUBSET Ids :
           masks_dir = [f \in {mask_path(id) : id \in found} |-> ForeignMask(f[2])]
    /\ _current_id = _ids[1]
    /\ _polygon_coordinates = <<>>
    /\ LET ld == _load_images(_ids[1], masks_dir, Empty, {})
       IN  /\ _current_img = ld.img
           /\ _current_mask = ld.cur
           /\ _intermediate_mask = ld.int
           /\ heap = ld.heap
           /\ image_fig_z = ld.heap[ld.cur]
           /\ mask_fig_z = ld.heap[ld.cur]
    /\ last = "__init__"
    /\ prev = "__init__"
    /\ pending_clear = FALSE
    /\ saved = Empty

SpecForeignMasks == InitForeignMasks /\ [][Next]_vars

\* ----------------------------------------------------------------- C13

\* C13: in every reachable state the image, the committed mask and the
\* working mask have the same height and width; an identifier whose mask on
\* disk has other dimensions than its image is not loaded into a state where
\* they differ.
C13_SameShape ==
    /\ Shape(Committed) = _current_img.shape
    /\ Shape(Working) = _current_img.shape

\* ------------------------------------------------ the square of clicks

\* The clicks of the scenario, in order: the corners of a square.
ScenarioPoints == <<<<0, 0>>, <<0, 5>>, <<5, 5>>, <<5, 0>>>>

\* The click the scenario makes after those of pts, on a figure of that
\* shape: the next corner, when the figure has that pixel.
ScenarioClicks(pts, shape) ==
    IF Len(pts) < Len(ScenarioPoints)
    THEN {ScenarioPoints[Len(pts) + 1]} \cap Pixels(shape)
    ELSE {}

\* __init__ on the larger images and an empty mask directory.
InitScenario ==
    /\ _path_imgs = "path_imgs_large"
    /\ clear_adds = NoClear
    /\ masks_dir = Empty
    /\ _current_id = _ids[1]
    /\ _polygon_coordinates = <<>>
    /\ LET ld == _load_images(_ids[1], masks_dir, Empty, {})
       IN  /\ _current_img = ld.img
           /\ _current_mask = ld.cur
           /\ _intermediate_mask = ld.int
           /\ heap = ld.heap
           /\ image_fig_z = ld.heap[ld.cur]
           /\ mask_fig_z = ld.heap[ld.cur]
    /\ last = "__init__"
    /\ prev = "__init__"
    /\ pending_clear = FALSE
    /\ saved = Empty

NextScenario ==
    \/ \E pt \in ScenarioClicks(_polygon_coordinates, Shape(image_fig_z)) :
          _on_click_figure(pt)
    \/ _callback_save_button
    \/ _callback_delete_current_config_button
    \/ _callback_delete_all_button
    \/ \E new \in Ids : _callback_dropdown(new)

SpecScenario == InitScenario /\ [][NextScenario]_vars

\* ----------------------------------------------------------------- C14

\* C14: with no mask saved yet and the first item current, the clicks (0,0),
\* (0,5), (5,5), (5,0) in that order followed by a save persist for that
\* item a mask that is 1 exactly at rows 0 to 5, columns 0 to 5 and 0
\* everywhere else; the polygon is then empty and the editor idle.
C14_SquareScenario ==
    [][/\ last' = "save"
       /\ masks_dir = Empty
       /\ _current_id = _ids[1]
       /\ _polygon_coordinates = ScenarioPoints
       => /\ path_exists(masks_dir', mask_path(_ids[1]))
          /\ LET m == np_load(masks_dir', mask_path(_ids[1]))
             IN  /\ Shape(m) = _current_img.shape
                 /\ \A p \in Pixels(Shape(m)) :
                       At(m, p) = IF p[1] <= 5 /\ p[2] <= 5 THEN 1 ELSE 0
          /\ _polygon_coordinates' = <<>>
          /\ Working' = Committed']_vars

\* The scenario has run: the first save of the session wrote the square.
C14_Witness ==
    /\ last = "save" /\ prev = "add_point"
    /\ DOMAIN saved = {_ids[1]}
    /\ PixelsAt(saved[_ids[1]], 1) = (0..5) \X (0..5)
    /\ PixelsAt(masks_dir[mask_path(_ids[1])], 0) # {}
    /\ masks_dir[mask_path(_ids[1])] = saved[_ids[1]]
    /\ _polygon_coordinates = <<>>

\* ----------------------------------------------------------------- C15

\* C15: between operations the committed mask in memory equals the mask on
\* disk of the current identifier when it has a file, and is all zero when
\* it has none; only a save and the load of an item change the committed
\* mask.
C15_CommittedMirrorsDisk ==
    /\ [](IF path_exists(masks_dir, mask_path(_current_id))
          THEN Committed = np_load(masks_dir, mask_path(_current_id))
          ELSE AllZero(Committed))
    /\ [][Committed' # Committed => last' \in {"save", "switch_item"}]_vars

\* A polygon has been saved: the committed mask and the file both hold it.
C15_Witness ==
    /\ last = "save" /\ prev = "add_point"
    /\ At(Committed, <<0, 0>>) = 1
    /\ path_exists(masks_dir, mask_path(_current_id))
    /\ At(np_load(masks_dir, mask_path(_current_id)), <<0, 0>>) = 1

\* ----------------------------------------------------------------- C16

\* C16: with fewer than three points clicked the working mask holds no 2 and
\* equals the committed mask or the all-zero mask; with three points or more
\* it equals the committed mask with exactly the polygon's fill set to 2.
C16_WorkingMask ==
    /\ Shape(Working) = Shape(Committed)
    /\ IF Len(_polygon_coordinates) < 3
       THEN /\ PixelsAt(Working, 2) = {}
            /\ Working = Committed \/ AllZero(Working)
       ELSE \A p \in Pixels(Shape(Committed)) :
               At(Working, p) =
                   IF p \in Fill(_polygon_coordinates, Shape(Committed))
                   THEN 2 ELSE At(Committed, p)

\* Three points are clicked on a committed mask that has labels outside
\* their polygon: the working mask shows both.
C16_Witness ==
    /\ Len(_polygon_coordinates) = 3
    /\ PixelsAt(Working, 2) # {}
    /\ PixelsAt(Working, 1) # {}
    /\ PixelsAt(Working, 0) # {}

\* ----------------------------------------------------------------- C17

\* C17: "Delete All Mask" followed by zero, one or two clicks and a save
\* persists the all-zero mask; followed by three clicks or more and a save,
\* it persists the committed mask of before the clear united with the
\* polygon's fill.
C17_ClearClicksSave ==
    /\ [][clear_adds' # NoClear /\ last' # "save" => Committed' = Committed]_vars
    /\ [][last' = "save" /\ Len(clear_adds) = 1 =>
            LET file == np_load(masks_dir', mask_path(_current_id))
            IN  /\ Shape(file) = Shape(Committed)
                /\ IF clear_adds[1] < 3
                   THEN AllZero(file)
                   ELSE \A p \in Pixels(Shape(file)) :
                           At(file, p) =
                               IF \/ At(Committed, p) = 1
                                  \/ p \in Fill(_polygon_coordinates, Shape(Committed))
                               THEN 1 ELSE 0]_vars

\* A clear, three clicks and a save have run on a mask that had a label
\* outside the polygon: the file holds the label and the polygon.
C17_Witness ==
    /\ last = "save"
    /\ clear_adds = <<3, "saved">>
    /\ LET file == np_load(masks_dir, mask_path(_current_id))
       IN  /\ At(file, <<0, 0>>) = 1
           /\ \E p \in PixelsAt(file, 1) :
                 \A pts \in [1..3 -> ClickPoints(Shape(file))] : p \notin Fill(pts, Shape(file))

\* ----------------------------------------------------------------- C18

\* C18: a save is idempotent: a second save right after a save leaves the
\* committed mask, the working mask, the polygon and the mask directory as
\* the first left them; a save with no polygon and a working mask equal to
\* the committed mask changes no mask content, it only creates the current
\* item's file when there was none.
C18_SaveIdempotent ==
    /\ [][last = "save" /\ last' = "save" =>
            /\ Committed' = Committed
            /\ Working' = Working
            /\ _polygon_coordinates' = _polygon_coordinates
            /\ masks_dir' = masks_dir]_vars
    /\ [][/\ last' = "save"
          /\ _polygon_coordinates = <<>>
          /\ Working = Committed
          => /\ Committed' = Committed
             /\ Working' = Working
             /\ DOMAIN masks_dir' = DOMAIN masks_dir \cup {mask_path(_current_id)}
             /\ \A f \in DOMAIN masks_dir : masks_dir'[f] = masks_dir[f]
             /\ np_load(masks_dir', mask_path(_current_id)) = Committed]_vars

\* Two saves in a row of a mask that holds a saved polygon.
C18_Witness ==
    /\ last = "save" /\ prev = "save"
    /\ At(Committed, <<0, 0>>) = 1
    /\ Working = Committed
    /\ np_load(masks_dir, mask_path(_current_id)) = Committed

=============================================================================
